---- MODULE Spec2Model ----
(***************************************************************************)
(* A model of src/app.py: a Streamlit dashboard over a PostgreSQL          *)
(* database (customers, invoices, stock_items, customer_invoices_summary). *)
(*                                                                         *)
(* Every user interaction re-runs the script top to bottom.  A script run  *)
(* is a sequential process; the steps at which two runs (two browser       *)
(* sessions) can interleave are the round trips to the database:           *)
(*   "call"    about to enter a data-access function (and to connect)      *)
(*   "exec"    connection open, about to execute the statement             *)
(*   "commit"  statement executed in the transaction, about to commit      *)
(* What the script does between two round trips (leaving the with-block,   *)
(* returning to the page, rendering, parsing a label) touches nothing      *)
(* another session can see and is part of the step that ends the trip.     *)
(* Text is a sequence of one-character strings, so that the label built on *)
(* the Customers page and its parsing are computed character by character. *)
(***************************************************************************)
EXTENDS Integers, Sequences, FiniteSets, TLC

\* ------------------------------------------------------------------ bounds
\* The server's id sequence hands out the ids "1" .. MaxId.
MaxId == 2
\* Connections the process may hold open at once (opened and not yet closed).
MaxOpen == 2
\* Longest text drawn for a field of a row in LabelSpec.
MaxLen == 2

\* ------------------------------------------------------------------ inputs
Users == {"u1", "u2"}
Names == {<<>>, <<"A">>, <<"B">>}
Emails == {<<>>, <<"a">>, <<"b">>}
\* An id no row ever has: the sequence starts at 1.
NonexistentId == <<"0">>

\* The sidebar's sections ("SQL terminal" is the source's "SQL terminál").
Pages == {"Customers", "Invoices", "Stock items", "Customer invoices summary", "SQL terminal"}

\* The statements typed into the SQL terminal: the pre-filled default, the
\* two of the spec's examples, abstracted to what the store does with them.
SelectCustomers == [verb |-> "SELECT", from |-> "customers"]
SelectOne == [verb |-> "SELECT", from |-> "1"]
DeleteWhereId(i) == [verb |-> "DELETE", from |-> "customers", id |-> i]
Queries == {SelectCustomers, SelectOne, DeleteWhereId(NonexistentId), DeleteWhereId(<<"1">>)}

\* Python's None, as a call's return value.
None == [kind |-> "None"]
NoWrite == [kind |-> "none"]
NoCall == [op |-> "none"]
NoRun == [page |-> "none", action |-> "none"]

VARIABLES
  dbUrl,      \* whether DATABASE_URL is set in the environment
  customers,  \* the committed rows of the table customers
  nextId,     \* the store's id sequence
  pending,    \* per session: the uncommitted write of its transaction
  open,       \* the number of connections opened and not closed
  hasConn,    \* per session: the running call's frame holds a connection
  pc,         \* per session: position of the script run
  run,        \* per session: the interaction the script run serves
  call,       \* per session: the data-access call in progress
  done,       \* per session: the call the run made before the one in progress
  outcome,    \* per session: "ok" or the exception the last call raised
  result,     \* per session: what execute_sql returned to the SQL terminal
  screen,     \* per session: what the run rendered last
  sel         \* per session: the row selected in the delete control

vars == <<dbUrl, customers, nextId, pending, open, hasConn, pc, run, call,
          done, outcome, result, screen, sel>>

\* ------------------------------------------------------------------ text
Max(S) == CHOOSE x \in S : \A y \in S : y <= x

Digits == <<"0", "1", "2", "3", "4", "5", "6", "7", "8", "9">>

\* str(n) of a non-negative integer.
RECURSIVE IntToStr(_)
IntToStr(n) ==
  IF n < 10 THEN <<Digits[n + 1]>>
  ELSE IntToStr(n \div 10) \o <<Digits[(n % 10) + 1]>>

\* f"{row['name']} ({row['email']}) [{row['id']}]"
Label(row) ==
  row.name \o <<" ", "(">> \o row.email \o <<")", " ", "[">> \o row.id \o <<"]">>

Min(S) == CHOOSE x \in S : \A y \in S : x <= y

\* Mutant of SplitLast: s.split("[")[1], the text between the first "[" and
\* the next one.
SplitSecond(s) ==
  LET at == {i \in 1..Len(s) : s[i] = "["}
      rest == {i \in at : i > Min(at)}
  IN IF at = {} THEN s
     ELSE SubSeq(s, Min(at) + 1, IF rest = {} THEN Len(s) ELSE Min(rest) - 1)

\* s.split("[")[-1]: the text after the last "[", all of s when it has none.
SplitLast(s) ==
  LET at == {i \in 1..Len(s) : s[i] = "["}
  IN IF at = {} THEN s ELSE SubSeq(s, Max(at) + 1, Len(s))

\* s.rstrip("]"): s without its trailing "]" characters, all of them.
RStrip(s) ==
  LET keep == {i \in 1..Len(s) : s[i] # "]"}
  IN IF keep = {} THEN <<>> ELSE SubSeq(s, 1, Max(keep))

\* selected.split("[")[-1].rstrip("]")
ExtractId(selected) == RStrip(SplitLast(selected))

\* ------------------------------------------------------------------ store
\* What the store does with the statements the program sends it.  A write
\* is held by the session's transaction until conn.commit(); the store makes
\* a statement wait while another transaction holds an uncommitted write on
\* the row (or the unique key) it is about to touch.

\* The unique keys (emails) and the row ids an uncommitted write holds.
HeldEmails(t, w) ==
  CASE w.kind = "ins" -> {w.row.email}
    [] w.kind \in {"upd", "del"} -> {r.email : r \in {x \in t : x.id = w.id}}
    [] OTHER -> {}
HeldIds(w) == IF w.kind \in {"upd", "del"} THEN {w.id} ELSE {}

\* Mutant of UpsertMustWait: the write is decided on what the session read,
\* without waiting for the transaction that holds the email.
UpsertNeverWaits(u, email) == FALSE

\* INSERT ... ON CONFLICT (email) waits for a transaction that holds email.
UpsertMustWait(u, email) ==
  \E v \in Users \ {u} : email \in HeldEmails(customers, pending[v])

\* DELETE ... WHERE id = i waits for a transaction that holds row i.
DeleteMustWait(u, i) ==
  \E v \in Users \ {u} : i \in HeldIds(pending[v])

\* Mutant of UpsertStatement: ON CONFLICT (email) DO NOTHING.
UpsertDoNothing(t, name, email, newId) ==
  IF \E r \in t : r.email = email
  THEN NoWrite
  ELSE [kind |-> "ins", row |-> [id |-> newId, name |-> name, email |-> email]]

\* Mutant of UpsertStatement: a plain INSERT, with no ON CONFLICT clause, on
\* a table whose email column lost its unique constraint.
UpsertAlwaysInserts(t, name, email, newId) ==
  [kind |-> "ins", row |-> [id |-> newId, name |-> name, email |-> email]]

\* INSERT INTO customers (name, email) VALUES (%s, %s)
\* ON CONFLICT (email) DO UPDATE SET name = EXCLUDED.name
\* as the write it makes on table t; a new row takes the id newId.
UpsertStatement(t, name, email, newId) ==
  IF \E r \in t : r.email = email
  THEN [kind |-> "upd", id |-> (CHOOSE r \in t : r.email = email).id, name |-> name]
  ELSE [kind |-> "ins", row |-> [id |-> newId, name |-> name, email |-> email]]

\* DELETE FROM customers WHERE id = %s
DeleteStatement(customer_id) == [kind |-> "del", id |-> customer_id]

\* Mutant of Apply: the DELETE's condition inverted (WHERE id <> %s).
ApplyDeleteInverted(t, w) ==
  CASE w.kind = "ins" -> t \cup {w.row}
    [] w.kind = "upd" -> {IF r.id = w.id THEN [r EXCEPT !.name = w.name] ELSE r : r \in t}
    [] w.kind = "del" -> {r \in t : r.id = w.id}
    [] OTHER -> t

\* Table t after write w is committed.
Apply(t, w) ==
  CASE w.kind = "ins" -> t \cup {w.row}
    [] w.kind = "upd" -> {IF r.id = w.id THEN [r EXCEPT !.name = w.name] ELSE r : r \in t}
    [] w.kind = "del" -> {r \in t : r.id # w.id}
    [] OTHER -> t

\* SELECT * FROM <relation>: every committed row, in no particular order.
\* Only customers is written by the program; the other relations are opaque.
SelectAll(relation) ==
  IF relation = "customers" THEN customers ELSE {[relation |-> relation]}

\* cur.description after cur.execute(query): the result's column names for
\* a statement that produces a result set, nothing (None) for one that does
\* not.
Description(query) ==
  CASE query.verb = "SELECT" /\ query.from = "customers" -> <<"id", "name", "email">>
    [] query.verb = "SELECT" /\ query.from = "1" -> <<"?column?">>
    [] OTHER -> <<>>
\* Mutant of HasResultSet: the rows are fetched whatever the statement.
HasResultSetAlways(query) == TRUE

\* if cur.description:
HasResultSet(query) == Description(query) # <<>>

\* cur.fetchall() for a statement that produces a result set.
FetchAll(query) ==
  IF query.from = "customers" THEN customers ELSE {<<1>>}

\* pd.DataFrame(rows, columns=cols)
DataFrame(rows, cols) == [kind |-> "DataFrame", columns |-> cols, rows |-> rows]

\* pd.read_sql(f"SELECT * FROM {relation}", conn)
ReadSql(relation) == [kind |-> "DataFrame", rows |-> SelectAll(relation)]

\* Mutant of Invalid: "and" for "or".
InvalidBothEmpty(name, email) == name = <<>> /\ email = <<>>

\* if not name or not email: raise ValueError
Invalid(name, email) == name = <<>> \/ email = <<>>

\* ------------------------------------------------------------------ state
TypeOK ==
  /\ dbUrl \in BOOLEAN
  /\ nextId \in 1..(MaxId + 1)
  /\ \A r \in customers : DOMAIN r = {"id", "name", "email"}
  /\ open \in 0..MaxOpen
  /\ hasConn \in [Users -> BOOLEAN]
  /\ pc \in [Users -> {"idle", "call", "exec", "commit"}]
  /\ outcome \in [Users -> {"none", "ok", "ValueError", "psycopg2.Error"}]
  /\ screen \in [Users -> {"blank", "fatal", "form", "table", "info", "success",
                           "inline_error", "uncaught"}]

\* The process starts with an empty customers table and nobody connected;
\* DATABASE_URL is set or not.
Init ==
  /\ dbUrl \in BOOLEAN
  /\ customers = {}
  /\ nextId = 1
  /\ pending = [u \in Users |-> NoWrite]
  /\ open = 0
  /\ hasConn = [u \in Users |-> FALSE]
  /\ pc = [u \in Users |-> "idle"]
  /\ run = [u \in Users |-> NoRun]
  /\ call = [u \in Users |-> NoCall]
  /\ done = [u \in Users |-> NoCall]
  /\ outcome = [u \in Users |-> "none"]
  /\ result = [u \in Users |-> None]
  /\ screen = [u \in Users |-> "blank"]
  /\ sel = [u \in Users |-> {}]

\* ------------------------------------------------------------------ pages
\* What a user can do in one interaction: pick a page and, on it, press at
\* most one button.
Interactions ==
  {[page |-> p, action |-> "view"] : p \in Pages}
  \cup {[page |-> "Customers", action |-> "submit", name |-> n, email |-> e] :
          n \in Names, e \in Emails}
  \cup {[page |-> "Customers", action |-> "delete"]}
  \cup {[page |-> "SQL terminal", action |-> "run", query |-> q] : q \in Queries}

\* The first session uses every page; the others are there as concurrent
\* writers of the customers table: they save a customer named "B" under any
\* e-mail, or delete one.
InteractionsOf(u) ==
  IF u = "u1" THEN Interactions
  ELSE {i \in Interactions : /\ i.page = "Customers"
                             /\ i.action \in {"submit", "delete"}
                             /\ i.action = "submit" => (i.name = <<"B">> /\ i.email # <<>>)}

LoadTable(table_name) == [op |-> "load_table", relation |-> table_name]
LoadView(view_name) == [op |-> "load_view", relation |-> view_name]
UpsertCustomer(name, email) == [op |-> "upsert_customer", name |-> name, email |-> email]
DeleteCustomer(customer_id) == [op |-> "delete_customer", id |-> customer_id]
ExecuteSql(query) == [op |-> "execute_sql", query |-> query]

\* The first data-access call the script makes for interaction i.
FirstCall(i) ==
  CASE i.page = "Customers" -> LoadTable("customers")
    [] i.page = "Invoices" -> LoadTable("invoices")
    [] i.page = "Stock items" -> LoadTable("stock_items")
    [] i.page = "Customer invoices summary" -> LoadView("customer_invoices_summary")
    [] OTHER -> ExecuteSql(i.query)

\* Session u goes on to data-access call c.
Enter(u, c) ==
  /\ call' = [call EXCEPT ![u] = c]
  /\ done' = [done EXCEPT ![u] = call[u]]
  /\ pc' = [pc EXCEPT ![u] = "call"]

\* Session u's script run ends having rendered s.
Finish(u, s) ==
  /\ screen' = [screen EXCEPT ![u] = s]
  /\ pc' = [pc EXCEPT ![u] = "idle"]
  /\ run' = [run EXCEPT ![u] = NoRun]
  /\ call' = [call EXCEPT ![u] = NoCall]
  /\ done' = [done EXCEPT ![u] = NoCall]

\* The delete control's options, one label per loaded row.
Options(df) == {Label(row) : row \in df.rows}

\* Customers, after df_customers = load_table("customers"), which is in no
\* try block: an exception leaves the script.  Otherwise the table is shown
\* and the pressed button's handler runs up to its data-access call: the
\* form's upsert_customer(name, email), or delete_customer(customer_id) with
\* the id parsed from the selected label ("Smazat vybraneho zakaznika";
\* with no rows there is no control and nothing to press).
CustomersPage(u, oc, df) ==
  IF oc # "ok"
  THEN Finish(u, "uncaught") /\ UNCHANGED sel
  ELSE CASE run[u].action = "submit" ->
              /\ Enter(u, UpsertCustomer(run[u].name, run[u].email))
              /\ UNCHANGED <<run, screen, sel>>
         [] run[u].action = "delete" /\ df.rows # {} ->
              \E row \in df.rows :
                LET selected == Label(row)
                    customer_id == ExtractId(selected)
                IN /\ selected \in Options(df)
                   /\ sel' = [sel EXCEPT ![u] = {row}]
                   /\ Enter(u, DeleteCustomer(customer_id))
                   /\ UNCHANGED <<run, screen>>
         [] run[u].action = "delete" /\ df.rows = {} ->
              Finish(u, "info") /\ UNCHANGED sel
         [] OTHER ->
              Finish(u, "table") /\ UNCHANGED sel

\* Customers, after upsert_customer or delete_customer in its try block:
\* st.success and st.experimental_rerun(), which runs the page again from
\* the top; except Exception: st.error.
CustomersAction(u, oc) ==
  IF oc = "ok"
  THEN /\ run' = [run EXCEPT ![u] = [page |-> "Customers", action |-> "view"]]
       /\ screen' = [screen EXCEPT ![u] = "success"]
       /\ Enter(u, LoadTable("customers"))
       /\ UNCHANGED sel
  ELSE Finish(u, "inline_error") /\ UNCHANGED sel

\* Invoices, Stock items, Customer invoices summary: try: load, st.dataframe;
\* except Exception: st.error.
TablePage(u, oc) ==
  /\ Finish(u, IF oc = "ok" THEN "table" ELSE "inline_error")
  /\ UNCHANGED sel

\* SQL terminal: try: result = execute_sql(query); st.dataframe(result) if
\* it is not None, else st.success; except Exception: st.error.
SqlTerminal(u, oc, value) ==
  /\ Finish(u, IF oc # "ok" THEN "inline_error"
               ELSE IF value # None THEN "table" ELSE "success")
  /\ UNCHANGED sel

\* The call in progress returns value (oc = "ok") or raises oc.  Leaving
\* "with get_connection() as conn" ends the transaction and does not close
\* the connection (psycopg2's connection context manager); the call's frame,
\* and its reference to the connection, are gone.  The page that made the
\* call goes on to its next call or to the end of the script run.
Return(u, oc, value) ==
  /\ hasConn' = [hasConn EXCEPT ![u] = FALSE]
  /\ outcome' = [outcome EXCEPT ![u] = oc]
  /\ result' = [result EXCEPT ![u] = IF call[u].op = "execute_sql" THEN value ELSE None]
  /\ CASE call[u].op = "execute_sql" -> SqlTerminal(u, oc, value)
       [] call[u].op \in {"upsert_customer", "delete_customer"} -> CustomersAction(u, oc)
       [] call[u].op = "load_table" /\ run[u].page = "Customers" -> CustomersPage(u, oc, value)
       [] OTHER -> TablePage(u, oc)

\* Mutant of MissingUrl: the start-up check dropped.
MissingUrlIgnored == FALSE

\* if not DATABASE_URL: st.error(...); st.stop()
MissingUrl == ~dbUrl

\* A user interaction starts a script run: the start-up check, then the
\* selected page up to its first data-access call.
StartRun(u, i) ==
  /\ pc[u] = "idle"
  /\ sel' = [sel EXCEPT ![u] = {}]
  /\ outcome' = [outcome EXCEPT ![u] = "none"]
  /\ result' = [result EXCEPT ![u] = None]
  /\ UNCHANGED <<dbUrl, customers, nextId, pending, open, hasConn>>
  /\ IF MissingUrl
     THEN Finish(u, "fatal")
     ELSE IF i.page = "SQL terminal" /\ i.action = "view"
          THEN Finish(u, "form")
          ELSE /\ run' = [run EXCEPT ![u] = i]
               /\ Enter(u, FirstCall(i))
               /\ screen' = [screen EXCEPT ![u] = "blank"]

\* ------------------------------------------------------------------ calls
\* upsert_customer raises ValueError before it opens a connection.
RaiseValueError(u) ==
  /\ pc[u] = "call"
  /\ call[u].op = "upsert_customer"
  /\ Invalid(call[u].name, call[u].email)
  /\ Return(u, "ValueError", None)
  /\ UNCHANGED <<dbUrl, customers, nextId, pending, open>>

\* The call passes its own checks and goes on to get_connection().
Connects(u) ==
  /\ pc[u] = "call"
  /\ call[u].op = "upsert_customer" => ~Invalid(call[u].name, call[u].email)

\* get_connection(): psycopg2.connect succeeds.
Connect(u) ==
  /\ Connects(u)
  /\ open < MaxOpen
  /\ open' = open + 1
  /\ hasConn' = [hasConn EXCEPT ![u] = TRUE]
  /\ pc' = [pc EXCEPT ![u] = "exec"]
  /\ UNCHANGED <<dbUrl, customers, nextId, pending, run, call, done, outcome,
                 result, screen, sel>>

\* get_connection(): psycopg2.connect raises; no connection exists.
ConnectFails(u) ==
  /\ Connects(u)
  /\ Return(u, "psycopg2.Error", None)
  /\ UNCHANGED <<dbUrl, customers, nextId, pending, open>>

\* The store rejects the statement (missing relation, permission, ...): the
\* call raises and the with-block rolls the transaction back.
StatementFails(u) ==
  /\ pc[u] = "exec"
  /\ Return(u, "psycopg2.Error", None)
  /\ UNCHANGED <<dbUrl, customers, nextId, pending, open>>

\* load_table / load_view: return pd.read_sql(...)
Read(u) ==
  /\ pc[u] = "exec"
  /\ call[u].op \in {"load_table", "load_view"}
  /\ Return(u, "ok", ReadSql(call[u].relation))
  /\ UNCHANGED <<dbUrl, customers, nextId, pending, open>>

\* upsert_customer: cur.execute(INSERT ... ON CONFLICT ...)
ExecuteUpsert(u) ==
  /\ pc[u] = "exec"
  /\ call[u].op = "upsert_customer"
  /\ ~UpsertMustWait(u, call[u].email)
  /\ LET w == UpsertStatement(customers, call[u].name, call[u].email, IntToStr(nextId))
     IN /\ w.kind = "ins" => nextId <= MaxId
        /\ pending' = [pending EXCEPT ![u] = w]
        /\ nextId' = IF w.kind = "ins" THEN nextId + 1 ELSE nextId
  /\ pc' = [pc EXCEPT ![u] = "commit"]
  /\ UNCHANGED <<dbUrl, customers, open, hasConn, run, call, done, outcome,
                 result, screen, sel>>

\* delete_customer: cur.execute("DELETE FROM customers WHERE id = %s", ...)
ExecuteDelete(u) ==
  /\ pc[u] = "exec"
  /\ call[u].op = "delete_customer"
  /\ ~DeleteMustWait(u, call[u].id)
  /\ pending' = [pending EXCEPT ![u] = DeleteStatement(call[u].id)]
  /\ pc' = [pc EXCEPT ![u] = "commit"]
  /\ UNCHANGED <<dbUrl, customers, nextId, open, hasConn, run, call, done,
                 outcome, result, screen, sel>>

\* execute_sql: cur.execute(query), then the branch on cur.description:
\* fetch and return the rows, or go on to conn.commit().
ExecuteQuery(u) ==
  /\ pc[u] = "exec"
  /\ call[u].op = "execute_sql"
  /\ LET query == call[u].query
     IN IF HasResultSet(query)
        THEN /\ Return(u, "ok", DataFrame(FetchAll(query), Description(query)))
             /\ UNCHANGED pending
        ELSE /\ ~DeleteMustWait(u, query.id)
             /\ pending' = [pending EXCEPT ![u] = DeleteStatement(query.id)]
             /\ pc' = [pc EXCEPT ![u] = "commit"]
             /\ UNCHANGED <<hasConn, run, call, done, outcome, result, screen, sel>>
  /\ UNCHANGED <<dbUrl, customers, nextId, open>>

\* conn.commit(): the transaction's write becomes the table's state; the
\* call returns None.
Commit(u) ==
  /\ pc[u] = "commit"
  /\ customers' = Apply(customers, pending[u])
  /\ pending' = [pending EXCEPT ![u] = NoWrite]
  /\ Return(u, "ok", None)
  /\ UNCHANGED <<dbUrl, nextId, open>>

\* A connection no frame refers to any more is closed when the interpreter
\* finalises the object; when that happens is up to the interpreter.
Finalize ==
  /\ open > Cardinality({u \in Users : hasConn[u]})
  /\ open' = open - 1
  /\ UNCHANGED <<dbUrl, customers, nextId, pending, hasConn, pc, run, call,
                 done, outcome, result, screen, sel>>

Next ==
  \/ Finalize
  \/ \E u \in Users :
       \/ \E i \in InteractionsOf(u) : StartRun(u, i)
       \/ RaiseValueError(u)
       \/ Connect(u)
       \/ ConnectFails(u)
       \/ StatementFails(u)
       \/ Read(u)
       \/ ExecuteUpsert(u)
       \/ ExecuteDelete(u)
       \/ ExecuteQuery(u)
       \/ Commit(u)

Spec == Init /\ [][Next]_vars

\* ------------------------------------------------------------------ labels
\* The label of the delete control and its parsing, on rows whose fields are
\* arbitrary short texts: the table is drawn, the first session is about to
\* load it for a press of the delete button, and the run goes on from there.
LabelChars == {"x", "[", "]"}
Texts == UNION {[1..n -> LabelChars] : n \in 0..MaxLen}
ShortTexts == {t \in Texts : Len(t) <= 1}
OtherRow == [id |-> <<"x">>, name |-> <<"o">>, email |-> <<"o">>]

LabelInit ==
  /\ dbUrl = TRUE
  /\ \E i \in Texts \ {OtherRow.id}, n \in Texts, e \in ShortTexts :
       customers = {[id |-> i, name |-> n, email |-> e], OtherRow}
  /\ nextId = 1
  /\ pending = [u \in Users |-> NoWrite]
  /\ open = 0
  /\ hasConn = [u \in Users |-> FALSE]
  /\ pc = [u \in Users |-> IF u = "u1" THEN "call" ELSE "idle"]
  /\ run = [u \in Users |-> IF u = "u1" THEN [page |-> "Customers", action |-> "delete"]
                                         ELSE NoRun]
  /\ call = [u \in Users |-> IF u = "u1" THEN LoadTable("customers") ELSE NoCall]
  /\ done = [u \in Users |-> NoCall]
  /\ outcome = [u \in Users |-> "none"]
  /\ result = [u \in Users |-> None]
  /\ screen = [u \in Users |-> "blank"]
  /\ sel = [u \in Users |-> {}]

LabelNext ==
  \/ Finalize
  \/ \E u \in Users :
       \/ Connect(u)
       \/ Read(u)
       \/ ExecuteDelete(u)
       \/ Commit(u)

LabelSpec == LabelInit /\ [][LabelNext]_vars

\* ------------------------------------------------------------------ claims
RowsWithEmail(t, e) == {r \in t : r.email = e}
RowsWithId(t, i) == {r \in t : r.id = i}
UniqueEmails(t) == \A r1, r2 \in t : r1.email = r2.email => r1 = r2

\* Session u's step is the commit of its call op.
Commits(u, op) == pc[u] = "commit" /\ call[u].op = op /\ pc'[u] # "commit"

\* C1: no table state has two rows with the same email, and right after a
\* successful upsert_customer(n, e) load_table("customers") yields exactly
\* one row with email e, whose name is n.
C1_UpsertThenLoad ==
  [][/\ UniqueEmails(customers')
     /\ \A u \in Users :
          Commits(u, "upsert_customer") =>
            LET loaded == RowsWithEmail(ReadSql("customers").rows', call[u].email)
            IN /\ Cardinality(loaded) = 1
               /\ \A r \in loaded : r.name = call[u].name
               /\ outcome'[u] = "ok"]_vars

\* C1's case: both sessions have saved the same e-mail under different
\* names, the second write an update of the one row there is.
C1_Witness ==
  /\ done["u1"] = UpsertCustomer(<<"A">>, <<"a">>) /\ outcome["u1"] = "ok"
  /\ done["u2"] = UpsertCustomer(<<"B">>, <<"a">>) /\ outcome["u2"] = "ok"
  /\ customers = {[id |-> <<"1">>, name |-> <<"A">>, email |-> <<"a">>]}
  /\ nextId = 2

\* C2: upsert_customer with an empty name or an empty email raises
\* ValueError at once: no connection is opened, no statement is executed,
\* the table and every transaction are as they were, and the page shows the
\* error inline.
C2_ValidationBeforeIO ==
  [][\A u \in Users :
       (/\ pc[u] = "call"
        /\ call[u].op = "upsert_customer"
        /\ (call[u].name = <<>> \/ call[u].email = <<>>)
        /\ pc'[u] # "call")
       => /\ outcome'[u] = "ValueError"
          /\ pc'[u] = "idle"
          /\ screen'[u] = "inline_error"
          /\ ~hasConn'[u]
          /\ open' = open
          /\ <<customers, pending, nextId>>' = <<customers, pending, nextId>>]_vars

\* C2's case: a form with an empty field was submitted to a table that has
\* a row, and the call raised ValueError.
C2_Witness ==
  \E u \in Users :
    /\ outcome[u] = "ValueError"
    /\ screen[u] = "inline_error"
    /\ customers # {}

\* C3: delete_customer(id) removes exactly the rows whose id is id, leaves
\* every other row as it was, and returns without raising; with no such row
\* the table is unchanged.
C3_DeleteFrame ==
  [][\A u \in Users :
       Commits(u, "delete_customer") =>
         /\ customers' = customers \ RowsWithId(customers, call[u].id)
         /\ RowsWithId(customers, call[u].id) = {} => customers' = customers
         /\ outcome'[u] = "ok"
         /\ screen'[u] = "success"]_vars

\* C3's case: one id was ever handed out and both sessions have deleted it
\* without an error, so one of the two deletes matched no row.
C3_Witness ==
  /\ nextId = 2
  /\ \A u \in Users :
       /\ done[u] = DeleteCustomer(<<"1">>)
       /\ outcome[u] = "ok"
       /\ screen[u] = "success"

\* C4: execute_sql returns a table (all rows, columns from the result
\* metadata) exactly for a statement with a result set, and otherwise
\* commits and returns None; SELECT 1 gives one row and one column, a
\* DELETE that matches nothing gives None and no error.
C4_ExecuteSql ==
  [][\A u \in Users :
       LET q == call[u].query
       IN /\ (/\ pc[u] = "exec" /\ call[u].op = "execute_sql"
              /\ pc'[u] # "exec" /\ outcome'[u] # "psycopg2.Error")
             => IF q.verb = "SELECT"
                THEN /\ pc'[u] = "idle" /\ outcome'[u] = "ok" /\ screen'[u] = "table"
                     /\ result'[u].kind = "DataFrame"
                     /\ result'[u].rows = FetchAll(q)
                     /\ result'[u].columns = Description(q)
                     /\ customers' = customers
                     /\ q = SelectOne =>
                          Cardinality(result'[u].rows) = 1 /\ Len(result'[u].columns) = 1
                ELSE pc'[u] = "commit" /\ result'[u] = None
          /\ Commits(u, "execute_sql")
             => /\ q.verb # "SELECT"
                /\ result'[u] = None /\ outcome'[u] = "ok" /\ screen'[u] = "success"
                /\ customers' = customers \ RowsWithId(customers, q.id)]_vars

\* C4's case: the SQL terminal ran a DELETE on a table that still has its
\* only row (the DELETE matched nothing) and reported success with no table.
C4_Witness ==
  \E u \in Users :
    /\ pc[u] = "idle" /\ screen[u] = "success" /\ outcome[u] = "ok"
    /\ result[u] = None
    /\ nextId = 2 /\ Cardinality(customers) = 1

\* C5: every connection a data-access call opened is closed when the call
\* exits: the open connections are those of the calls in progress.
C5_ConnectionsClosed == open = Cardinality({u \in Users : hasConn[u]})

\* C6: no failing data-access call leaves the page: every error is shown
\* inline.
C6_NoUncaughtError == \A u \in Users : screen[u] # "uncaught"

\* C7: without DATABASE_URL nothing but the fatal message is ever shown, no
\* data-access call is made, no connection is opened and the table is not
\* touched.
C7_HaltWithoutUrl ==
  ~dbUrl =>
    /\ \A u \in Users :
         /\ pc[u] = "idle" /\ call[u] = NoCall /\ ~hasConn[u]
         /\ screen[u] \in {"blank", "fatal"}
         /\ outcome[u] = "none"
    /\ open = 0
    /\ customers = {}
    /\ nextId = 1

\* C7's case: the URL is absent and every session has tried a page.
C7_Witness == ~dbUrl /\ \A u \in Users : screen[u] = "fatal"

\* C8: with two sessions in upsert_customer on the same email at once, no
\* two uncommitted writes hold the same email, and the commit of either
\* leaves exactly one row for the email, with the committing call's name,
\* and no error.
C8_ConcurrentUpsert ==
  [][/\ \A u, v \in Users :
          u # v => HeldEmails(customers, pending[u])' \cap HeldEmails(customers, pending[v])' = {}
     /\ \A u, v \in Users :
          (/\ u # v
           /\ Commits(u, "upsert_customer")
           /\ pc[v] \in {"exec", "commit"}
           /\ call[v].op = "upsert_customer"
           /\ call[v].email = call[u].email)
          => LET rows == RowsWithEmail(customers', call[u].email)
             IN /\ Cardinality(rows) = 1
                /\ \A r \in rows : r.name = call[u].name
                /\ outcome'[u] = "ok"]_vars

\* C8's case: one session's upsert is uncommitted and the other's, on the
\* same email with another name, is waiting for it.
C8_Witness ==
  \E u, v \in Users :
    /\ pc[u] = "commit" /\ call[u].op = "upsert_customer"
    /\ pc[v] = "exec" /\ call[v].op = "upsert_customer"
    /\ call[v].email = call[u].email
    /\ call[v].name # call[u].name

\* An id's text is safe for the label: no "[" in it and no "]" at its end.
BracketSafe(i) ==
  /\ \A k \in 1..Len(i) : i[k] # "["
  /\ i # <<>> => i[Len(i)] # "]"

\* C9 as stated: delete_customer is called with the id of the selected row,
\* whatever the row's name, email and id are.
C9_LabelRoundTrip ==
  \A u \in Users :
    call[u].op = "delete_customer" => \A row \in sel[u] : call[u].id = row.id

\* C9 as amended: the same for every row whose id has no "[" in it and no
\* "]" at its end, whatever its name and email are.
C9_LabelRoundTripSafeIds ==
  \A u \in Users :
    call[u].op = "delete_customer" =>
      \A row \in sel[u] : BracketSafe(row.id) => call[u].id = row.id

\* C9's case: the selected row's name and email hold brackets, its id is a
\* safe text, and the delete has gone through for it.
C9_Witness ==
  \E u \in Users :
    /\ done[u].op = "delete_customer" /\ outcome[u] = "ok"
    /\ \E row \in sel[u] :
         /\ row.name = <<"[", "]">> /\ row.email = <<"[">>
         /\ row.id = <<"x", "x">> /\ done[u].id = row.id
         /\ row \notin customers

\* C10: a committed upsert_customer(n, e) changes the name of the row with
\* email e and nothing else (same id, same email, same number of rows), or
\* adds one row when there is none; rows with another email are untouched.
C10_UpsertFrame ==
  [][\A u \in Users :
       Commits(u, "upsert_customer") =>
         LET e == call[u].email
             old == RowsWithEmail(customers, e)
         IN /\ {r \in customers : r.email # e} = {r \in customers' : r.email # e}
            /\ old # {} =>
                 /\ Cardinality(customers') = Cardinality(customers)
                 /\ RowsWithEmail(customers', e) = {[r EXCEPT !.name = call[u].name] : r \in old}
            /\ old = {} =>
                 /\ Cardinality(customers') = Cardinality(customers) + 1
                 /\ \A r \in RowsWithEmail(customers', e) :
                      r.name = call[u].name /\ RowsWithId(customers, r.id) = {}]_vars

\* C10's case: an update that renames one of two rows is about to commit.
C10_Witness ==
  \E u \in Users :
    /\ pc[u] = "commit" /\ call[u].op = "upsert_customer"
    /\ pending[u].kind = "upd"
    /\ Cardinality(customers) = 2
    /\ \E r \in customers : r.id = pending[u].id /\ r.name # pending[u].name
====
